---- MODULE Spec2Model ----
(***************************************************************************)
(* A model of the lexical scanner of lox-rs (src/src/scanner.rs).          *)
(*                                                                         *)
(* A character is a one-character string.  The source text is the          *)
(* sequence chars; offsets (start, current) are 0-based as in the code,    *)
(* so the character at offset i is chars[i + 1].                           *)
(*                                                                         *)
(* One iteration of the loop of scan_tokens is one step of the model; the  *)
(* helper routines of the scanner are operators on a record s that holds   *)
(* the fields the routines mutate, plus the diagnostics written by         *)
(* utils::report and a flag that records a panic (an out-of-bounds index). *)
(***************************************************************************)
EXTENDS Integers, Sequences, FiniteSets, TLC

VARIABLES chars, tokens, start, current, line, errors, pc, calls, returned

vars == <<chars, tokens, start, current, line, errors, pc, calls, returned>>

(***************************************************************************)
(* Bounds of the model.                                                    *)
(***************************************************************************)
MaxLen == 3
MaxNumLen == 5
MaxStrLen == 5
MaxCommentLen == 5
MaxWordLen == 5
MaxOpLen == 4
MaxCalls == 2
MaxFairLen == 3

(***************************************************************************)
(* Character classes (char::is_ascii_digit, is_alphabetic,                 *)
(* is_alphanumeric), over the characters the model draws from.             *)
(***************************************************************************)
Digits == {"0", "1", "2", "3", "4", "5", "6", "7", "8", "9"}

Lower == {"a", "b", "c", "d", "e", "f", "g", "h", "i", "j", "k", "l", "m",
          "n", "o", "p", "q", "r", "s", "t", "u", "v", "w", "x", "y", "z"}

Upper == {"A", "B", "C", "D", "E", "F", "G", "H", "I", "J", "K", "L", "M",
          "N", "O", "P", "Q", "R", "S", "T", "U", "V", "W", "X", "Y", "Z"}

is_ascii_digit(c) == c \in Digits

is_alphabetic(c) == c \in Lower \cup Upper

is_alphanumeric(c) == is_alphabetic(c) \/ c \in Digits

DigitVal(c) ==
  CASE c = "0" -> 0 [] c = "1" -> 1 [] c = "2" -> 2 [] c = "3" -> 3
    [] c = "4" -> 4 [] c = "5" -> 5 [] c = "6" -> 6 [] c = "7" -> 7
    [] c = "8" -> 8 [] c = "9" -> 9

(***************************************************************************)
(* Option<T>: None is the empty sequence, Some(x) the one-element one.     *)
(***************************************************************************)
None == << >>

Some(x) == <<x>>

(***************************************************************************)
(* The keyword table.                                                      *)
(***************************************************************************)
KeywordWords ==
  { <<"a","n","d">>, <<"c","l","a","s","s">>, <<"e","l","s","e">>,
    <<"f","a","l","s","e">>, <<"f","o","r">>, <<"F","u","n">>, <<"i","f">>,
    <<"n","i","l">>, <<"o","r">>, <<"p","r","i","n","t">>,
    <<"r","e","t","u","r","n">>, <<"s","u","p","e","r">>,
    <<"t","h","i","s">>, <<"t","r","u","e">>, <<"v","a","r">>,
    <<"w","h","i","l","e">> }

KeywordKind(w) ==
  CASE w = <<"a","n","d">> -> "And"
    [] w = <<"c","l","a","s","s">> -> "Class"
    [] w = <<"e","l","s","e">> -> "Else"
    [] w = <<"f","a","l","s","e">> -> "False"
    [] w = <<"f","o","r">> -> "For"
    [] w = <<"F","u","n">> -> "Fun"
    [] w = <<"i","f">> -> "If"
    [] w = <<"n","i","l">> -> "Nil"
    [] w = <<"o","r">> -> "Or"
    [] w = <<"p","r","i","n","t">> -> "Print"
    [] w = <<"r","e","t","u","r","n">> -> "Return"
    [] w = <<"s","u","p","e","r">> -> "Super"
    [] w = <<"t","h","i","s">> -> "This"
    [] w = <<"t","r","u","e">> -> "True"
    [] w = <<"v","a","r">> -> "Var"
    [] w = <<"w","h","i","l","e">> -> "While"

\* KEYWORDS.get(text): Some(kind) or None
KEYWORDS_get(w) == IF w \in KeywordWords THEN Some(KeywordKind(w)) ELSE None

(***************************************************************************)
(* The scanner's mutable fields as a record, as the helper routines see    *)
(* them through &mut self.                                                 *)
(***************************************************************************)
Self ==
  [tokens |-> tokens, start |-> start, current |-> current, line |-> line,
   errors |-> errors, panicked |-> FALSE]

is_at_end(s) == s.current >= Len(chars)

\* substr with its end one too low: chars[start..end - 1]
substr_ShortByOne(cs, a, b) == SubSeq(cs, a + 1, b - 1)

\* chars[start..end].iter().collect()
substr(cs, a, b) == SubSeq(cs, a + 1, b)

\* self.chars[self.current] panics when current is not an index of chars
advance(s) ==
  IF s.current >= Len(chars)
    THEN [s EXCEPT !.panicked = TRUE]
    ELSE [s EXCEPT !.current = @ + 1]

add_token(s, kind) ==
  [s EXCEPT !.tokens =
     Append(@, [kind |-> kind, lexeme |-> substr(chars, s.start, s.current),
                literal |-> None, line |-> s.line])]

add_literal(s, kind, literal) ==
  [s EXCEPT !.tokens =
     Append(@, [kind |-> kind, lexeme |-> substr(chars, s.start, s.current),
                literal |-> literal, line |-> s.line])]

\* whether next_if_eq(expected) returns true
next_if_eq_result(s, expected) ==
  IF is_at_end(s) THEN FALSE
  ELSE IF chars[s.current + 1] # expected THEN FALSE
  ELSE TRUE

\* next_if_eq without its `self.current += 1`
next_if_eq_NoAdvance(s, expected) == s

\* the scanner after next_if_eq(expected)
next_if_eq(s, expected) ==
  IF next_if_eq_result(s, expected) THEN [s EXCEPT !.current = @ + 1] ELSE s

peek(s) == IF is_at_end(s) THEN None ELSE Some(chars[s.current + 1])

peek_next(s) ==
  LET idx == s.current + 1
  IN  IF idx + 1 >= Len(chars) THEN None ELSE Some(chars[idx + 1])

\* a diagnostic that aborts the scan after it is written
error_Aborts(s, message) ==
  [s EXCEPT !.errors = Append(@, [line |-> s.line, message |-> message]),
            !.panicked = TRUE]

\* utils::error -> utils::report: one line on the error stream
error(s, message) ==
  [s EXCEPT !.errors = Append(@, [line |-> s.line, message |-> message])]

(***************************************************************************)
(* str::parse::<f64> on a text of digits and dots.  The value is the       *)
(* decimal mant / 10^exp with exp minimal, so that equal numbers have      *)
(* equal values ("3.10" and "3.1", "3.0" and "3").  A text that is not a   *)
(* decimal numeral ("", ".", "1.2.3") is a parse error: None.              *)
(***************************************************************************)
RECURSIVE DigitsValue(_)
DigitsValue(d) ==
  IF d = << >> THEN 0
  ELSE 10 * DigitsValue(SubSeq(d, 1, Len(d) - 1)) + DigitVal(d[Len(d)])

RECURSIVE Normalise(_, _)
Normalise(m, e) ==
  IF e > 0 /\ m % 10 = 0 THEN Normalise(m \div 10, e - 1)
  ELSE [mant |-> m, exp |-> e]

IsDot(c) == c = "."

NotDot(c) == c # "."

parse_f64(text) ==
  LET dots == SelectSeq(text, IsDot)
      digs == SelectSeq(text, NotDot)
      dot  == IF dots = << >> THEN Len(text) + 1
              ELSE CHOOSE i \in 1..Len(text) :
                     text[i] = "." /\ \A j \in 1..(i - 1) : text[j] # "."
  IN  IF /\ \A i \in 1..Len(text) : text[i] \in Digits \cup {"."}
         /\ Len(dots) <= 1
         /\ Len(digs) >= 1
        THEN Some(Normalise(DigitsValue(digs),
                            IF dots = << >> THEN 0 ELSE Len(text) - dot))
        ELSE None

\* Option::unwrap_or_default: f64::default() is 0.0
unwrap_or_default(o) == IF o = None THEN [mant |-> 0, exp |-> 0] ELSE o[1]

(***************************************************************************)
(* Literal values (crate::token::Literal), one record shape per variant.   *)
(***************************************************************************)
LiteralString(value) == [tag |-> "String", str |-> value]

LiteralNumber(value) == [tag |-> "Number", mant |-> value.mant, exp |-> value.exp]

LiteralIdentifier(text) == [tag |-> "Identifier", name |-> text]

(***************************************************************************)
(* Scanner::string                                                         *)
(***************************************************************************)
\* the loop of string with escape processing: a backslash takes the next
\* character with it
RECURSIVE string_loop_Escapes(_)
string_loop_Escapes(s) ==
  LET p == peek(s)
  IN  IF p = None \/ s.panicked THEN s
      ELSE IF p[1] = "\"" THEN s
      ELSE IF p[1] = "\\" /\ peek(advance(s)) # None
        THEN string_loop_Escapes(advance(advance(s)))
      ELSE string_loop_Escapes(advance(IF p[1] = "\n"
                                         THEN [s EXCEPT !.line = @ + 1]
                                         ELSE s))

\* the loop of string without its `self.line += 1`
RECURSIVE string_loop_NoLineCount(_)
string_loop_NoLineCount(s) ==
  LET p == peek(s)
  IN  IF p = None \/ s.panicked THEN s
      ELSE IF p[1] = "\"" THEN s
      ELSE string_loop_NoLineCount(advance(s))

RECURSIVE string_loop(_)
string_loop(s) ==
  LET p == peek(s)
  IN  IF p = None \/ s.panicked THEN s
      ELSE IF p[1] = "\"" THEN s
      ELSE string_loop(advance(IF p[1] = "\n"
                                 THEN [s EXCEPT !.line = @ + 1]
                                 ELSE s))

\* string without the `return` after the diagnostic
string_NoReturn(s) ==
  LET s1 == string_loop(s)
      s2 == IF is_at_end(s1) THEN error(s1, "Unterminated string.")
            ELSE advance(s1)
      value == substr(chars, s2.start + 1, s2.current - 1)
  IN  add_literal(s2, "String", Some(LiteralString(value)))

string(s) ==
  LET s1 == string_loop(s)
  IN  IF is_at_end(s1) THEN error(s1, "Unterminated string.")
      ELSE LET s2 == advance(s1)
               value == substr(chars, s2.start + 1, s2.current - 1)
           IN  add_literal(s2, "String", Some(LiteralString(value)))

(***************************************************************************)
(* Scanner::number                                                         *)
(***************************************************************************)
peek_is_digit(s) == peek(s) # None /\ is_ascii_digit(peek(s)[1])

peek_next_is_digit(s) == peek_next(s) # None /\ is_ascii_digit(peek_next(s)[1])

RECURSIVE digit_loop(_)
digit_loop(s) ==
  IF peek_is_digit(s) /\ ~s.panicked THEN digit_loop(advance(s)) ELSE s

number(s) ==
  LET s1 == digit_loop(s)
      s2 == IF peek(s1) = Some(".") /\ peek_next_is_digit(s1)
              THEN digit_loop(advance(s1))
              ELSE s1
      value == unwrap_or_default(parse_f64(substr(chars, s2.start, s2.current)))
  IN  add_literal(s2, "Number", Some(LiteralNumber(value)))

(***************************************************************************)
(* Scanner::identifier                                                     *)
(***************************************************************************)
\* the loop of identifier with is_alphabetic for is_alphanumeric
RECURSIVE alnum_loop_AlphabeticOnly(_)
alnum_loop_AlphabeticOnly(s) ==
  IF peek(s) # None /\ is_alphabetic(peek(s)[1]) /\ ~s.panicked
    THEN alnum_loop_AlphabeticOnly(advance(s))
    ELSE s

RECURSIVE alnum_loop(_)
alnum_loop(s) ==
  IF peek(s) # None /\ is_alphanumeric(peek(s)[1]) /\ ~s.panicked
    THEN alnum_loop(advance(s))
    ELSE s

\* identifier giving a keyword token the text as literal too
identifier_KeywordLiteral(s) ==
  LET s1 == alnum_loop(s)
      text == substr(chars, s1.start, s1.current)
      kind == KEYWORDS_get(text)
  IN  add_literal(s1, IF kind # None THEN kind[1] ELSE "Identifier",
                  Some(LiteralIdentifier(text)))

identifier(s) ==
  LET s1 == alnum_loop(s)
      text == substr(chars, s1.start, s1.current)
      kind == KEYWORDS_get(text)
  IN  IF kind # None THEN add_token(s1, kind[1])
      ELSE add_literal(s1, "Identifier", Some(LiteralIdentifier(text)))

(***************************************************************************)
(* Scanner::scan_token                                                     *)
(***************************************************************************)
\* the comment loop consuming the newline too: while self.advance() != '\n' {}
RECURSIVE comment_loop_EatsNewline(_)
comment_loop_EatsNewline(s) ==
  IF s.panicked THEN s
  ELSE IF peek(s) = Some("\n") THEN advance(s)
  ELSE comment_loop_EatsNewline(advance(s))

\* the comment arm's loop: while self.peek() != Some('\n') { self.advance(); }
RECURSIVE comment_loop(_)
comment_loop(s) ==
  IF peek(s) # Some("\n") /\ ~s.panicked THEN comment_loop(advance(s)) ELSE s

\* the arms '!' '=' '<' '>': the kind with and without a following '='
operator(s, combined, single) ==
  IF next_if_eq_result(s, "=")
    THEN add_token(next_if_eq(s, "="), combined)
    ELSE add_token(next_if_eq(s, "="), single)

slash(s) ==
  IF next_if_eq_result(s, "/")
    THEN comment_loop(next_if_eq(s, "/"))
    ELSE add_token(next_if_eq(s, "/"), "Slash")

scan_token(s0) ==
  LET c == chars[s0.current + 1]
      s == advance(s0)
  IN  CASE c = "(" -> add_token(s, "LeftParen")
        [] c = ")" -> add_token(s, "RightParen")
        [] c = "{" -> add_token(s, "LeftParen")
        [] c = "}" -> add_token(s, "RightBrace")
        [] c = "," -> add_token(s, "Dot")
        [] c = "." -> add_token(s, "Comma")
        [] c = "-" -> add_token(s, "Minus")
        [] c = "+" -> add_token(s, "Plus")
        [] c = ";" -> add_token(s, "Semicolon")
        [] c = "*" -> add_token(s, "Plus")
        [] c = "!" -> operator(s, "BangEqual", "Bang")
        [] c = "=" -> operator(s, "EqualEqual", "Equal")
        [] c = "<" -> operator(s, "LessEqual", "Less")
        [] c = ">" -> operator(s, "GreaterEqual", "Greater")
        [] c = "/" -> slash(s)
        [] c \in {" ", "\r", "\t"} -> s
        [] c = "\n" -> [s EXCEPT !.line = @ + 1]
        [] c = "\"" -> string(s)
        [] OTHER ->
             IF is_ascii_digit(c) THEN number(s)
             ELSE IF is_alphabetic(c) THEN identifier(s)
             ELSE error(s, "Unexpected characters.")

(***************************************************************************)
(* The source texts the model scans: every text up to MaxLen over the      *)
(* whole alphabet, longer texts over the characters of one lexical class   *)
(* (numbers, strings, comments, words, operators), the examples of the     *)
(* documentation, and the reserved words.                                  *)
(***************************************************************************)
SeqsUpTo(A, n) == UNION {[1..k -> A] : k \in 0..n}

Alphabet ==
  {"(", ")", "{", "}", ",", ".", "-", "+", ";", "*", "!", "=", "<", ">", "/",
   " ", "\r", "\t", "\n", "\"", "1", "a", "@"}

NumberAlphabet == {"1", "4", ".", "a", " "}

StringAlphabet == {"\"", "\n", "a", "\\"}

CommentAlphabet == {"/", "\n", "c", "1"}

WordAlphabet == {"f", "o", "r", "x", "F", "1"}

OperatorAlphabet == {"!", "=", "<", ">"}

Examples ==
  { <<"/", "/", " ", "c", "o", "m", "m", "e", "n", "t", "\n", "1", "2", "3">>,
    <<"3", ".", "1", "4">>,
    <<"3", ".">>,
    <<"\"", "a", "b", "c">>,
    <<"f", "o", "r">>,
    <<"f", "o", "r", "x">>,
    <<"!", "=">>,
    <<"/", "/">>,
    <<"a", " ", "/", "/", " ", "n", "o", "t", "e">>,
    <<"3", ".", "1">>,
    <<"1", "2", ".", "5">>,
    <<"\"", "a", "\n", "b", "\"", " ", "c">>,
    <<"\"", "a", "\\", "\"", "b", "\"">>,
    <<"f", "u", "n">>,
    <<"F", "u", "n">>,
    <<"F", "o", "r">> }

ReservedWords ==
  { <<"a", "n", "d">>,
    <<"c", "l", "a", "s", "s">>,
    <<"e", "l", "s", "e">>,
    <<"f", "a", "l", "s", "e">>,
    <<"f", "o", "r">>,
    <<"f", "u", "n">>,
    <<"i", "f">>,
    <<"n", "i", "l">>,
    <<"o", "r">>,
    <<"p", "r", "i", "n", "t">>,
    <<"r", "e", "t", "u", "r", "n">>,
    <<"s", "u", "p", "e", "r">>,
    <<"t", "h", "i", "s">>,
    <<"t", "r", "u", "e">>,
    <<"v", "a", "r">>,
    <<"w", "h", "i", "l", "e">> }

Sources ==
  SeqsUpTo(Alphabet, MaxLen)
    \cup SeqsUpTo(NumberAlphabet, MaxNumLen)
    \cup SeqsUpTo(StringAlphabet, MaxStrLen)
    \cup SeqsUpTo(CommentAlphabet, MaxCommentLen)
    \cup SeqsUpTo(WordAlphabet, MaxWordLen)
    \cup SeqsUpTo(OperatorAlphabet, MaxOpLen)
    \cup Examples
    \cup ReservedWords

(***************************************************************************)
(* Scanner::new(source): the state after construction.                     *)
(***************************************************************************)
Fresh ==
  /\ tokens = << >>
  /\ start = 0
  /\ current = 0
  /\ line = 1
  /\ errors = << >>
  /\ pc = "ready"
  /\ calls = 0
  /\ returned = << >>

Init == chars \in Sources /\ Fresh

\* a call of scan_tokens that starts over: clears tokens, resets the cursor
CallScanTokens_Resets ==
  /\ pc = "ready"
  /\ calls < MaxCalls
  /\ pc' = "loop"
  /\ tokens' = << >>
  /\ start' = 0
  /\ current' = 0
  /\ line' = 1
  /\ UNCHANGED <<chars, errors, calls, returned>>

(***************************************************************************)
(* A call of scan_tokens on the scanner.                                   *)
(***************************************************************************)
CallScanTokens ==
  /\ pc = "ready"
  /\ calls < MaxCalls
  /\ pc' = "loop"
  /\ UNCHANGED <<chars, tokens, start, current, line, errors, calls, returned>>

\* an iteration of the loop without its `self.start = self.current`
ScanToken_NoStartReset ==
  /\ pc = "loop"
  /\ ~is_at_end(Self)
  /\ LET r == scan_token(Self)
     IN  /\ tokens' = r.tokens
         /\ start' = r.start
         /\ current' = r.current
         /\ line' = r.line
         /\ errors' = r.errors
         /\ pc' = IF r.panicked THEN "panicked" ELSE "loop"
  /\ UNCHANGED <<chars, calls, returned>>

(***************************************************************************)
(* One iteration of the loop of scan_tokens:                               *)
(*   self.start = self.current; self.scan_token();                         *)
(* A panic inside scan_token unwinds out of scan_tokens.                   *)
(***************************************************************************)
ScanToken ==
  /\ pc = "loop"
  /\ ~is_at_end(Self)
  /\ LET r == scan_token([Self EXCEPT !.start = current])
     IN  /\ tokens' = r.tokens
         /\ start' = r.start
         /\ current' = r.current
         /\ line' = r.line
         /\ errors' = r.errors
         /\ pc' = IF r.panicked THEN "panicked" ELSE "loop"
  /\ UNCHANGED <<chars, calls, returned>>

\* the end of scan_tokens pushing the EOF token with add_token
PushEOF_AddToken ==
  /\ pc = "loop"
  /\ is_at_end(Self)
  /\ tokens' = add_token(Self, "EOF").tokens
  /\ returned' = tokens'
  /\ calls' = calls + 1
  /\ pc' = "ready"
  /\ UNCHANGED <<chars, start, current, line, errors>>

(***************************************************************************)
(* The end of scan_tokens: push the EOF token, return a copy of tokens.    *)
(***************************************************************************)
PushEOF ==
  /\ pc = "loop"
  /\ is_at_end(Self)
  /\ tokens' = Append(tokens, [kind |-> "EOF", lexeme |-> << >>,
                               literal |-> None, line |-> line])
  /\ returned' = tokens'
  /\ calls' = calls + 1
  /\ pc' = "ready"
  /\ UNCHANGED <<chars, start, current, line, errors>>

Next == CallScanTokens \/ ScanToken \/ PushEOF

Spec == Init /\ [][Next]_vars

(***************************************************************************)
(* Vocabulary of the properties.                                           *)
(***************************************************************************)
Last(s) == s[Len(s)]

\* the number of newline characters at offsets below k
NewlinesBefore(k) == Cardinality({i \in 1..k : chars[i] = "\n"})

\* the first call of scan_tokens has returned
FirstCallReturned == pc = "ready" /\ calls = 1

\* the state right after an iteration of the loop (of the first call) that
\* appended a token: start and current delimit the token
JustEmitted ==
  /\ pc = "loop"
  /\ calls = 0
  /\ start < current
  /\ tokens # << >>
  /\ Last(tokens).lexeme = substr(chars, start, current)

EOFToken(l) == [kind |-> "EOF", lexeme |-> << >>, literal |-> None, line |-> l]

InCommentToEnd ==
  /\ start + 2 <= Len(chars)
  /\ current >= start + 2
  /\ chars[start + 1] = "/"
  /\ chars[start + 2] = "/"
  /\ \A i \in (start + 3)..Len(chars) : chars[i] # "\n"

C2_CommentAtEndDoesNotCrash == InCommentToEnd => pc # "panicked"

(***************************************************************************)
(* C3: each of the ten punctuation marks ( ) { } , . - + ; * yields a      *)
(* token of its conventional kind, and no two of them yield the same kind. *)
(***************************************************************************)
Punctuation == {"(", ")", "{", "}", ",", ".", "-", "+", ";", "*"}

ConventionalKind(c) ==
  CASE c = "(" -> "LeftParen"
    [] c = ")" -> "RightParen"
    [] c = "{" -> "LeftBrace"
    [] c = "}" -> "RightBrace"
    [] c = "," -> "Comma"
    [] c = "." -> "Dot"
    [] c = "-" -> "Minus"
    [] c = "+" -> "Plus"
    [] c = ";" -> "Semicolon"
    [] c = "*" -> "Star"

IsPunctuationToken(tok) == Len(tok.lexeme) = 1 /\ tok.lexeme[1] \in Punctuation

C3_PunctuationBijection ==
  /\ \A i \in 1..Len(tokens) :
       IsPunctuationToken(tokens[i]) =>
         tokens[i].kind = ConventionalKind(tokens[i].lexeme[1])
  /\ \A i, j \in 1..Len(tokens) :
       /\ IsPunctuationToken(tokens[i])
       /\ IsPunctuationToken(tokens[j])
       /\ tokens[i].kind = tokens[j].kind
       => tokens[i].lexeme = tokens[j].lexeme

(***************************************************************************)
(* C4: digits, a dot and digits scan as one Number token: a Number token   *)
(* that holds no dot is never directly followed by a dot and a digit.      *)
(***************************************************************************)
C4_FractionIsOneNumber ==
  ( /\ JustEmitted
    /\ Last(tokens).kind = "Number"
    /\ \A i \in (start + 1)..current : chars[i] # "." )
  => ~ ( /\ current + 2 <= Len(chars)
         /\ chars[current + 1] = "."
         /\ chars[current + 2] \in Digits )

(***************************************************************************)
(* C5: a dot that follows a number and is not followed by a digit is not   *)
(* part of the Number token; it is a separate token of kind Dot.           *)
(***************************************************************************)
DotAfterNumber ==
  /\ JustEmitted
  /\ substr(chars, start, current) = <<".">>
  /\ start >= 1
  /\ chars[start] \in Digits
  /\ ~ (current + 1 <= Len(chars) /\ chars[current + 1] \in Digits)
  /\ Len(tokens) >= 2
  /\ tokens[Len(tokens) - 1].kind = "Number"

C5_TrailingDotIsDotToken ==
  DotAfterNumber =>
    /\ Last(tokens).kind = "Dot"
    /\ Last(tokens).lexeme = <<".">>
    /\ Last(tokens[Len(tokens) - 1].lexeme) \in Digits

(***************************************************************************)
(* Steps of the loop, for the properties of one iteration.                 *)
(***************************************************************************)
\* an iteration is about to scan the character c at offset current
AtChar(c) == pc = "loop" /\ current < Len(chars) /\ chars[current + 1] = c

\* the iteration appends exactly the token tok and consumes up to offset e
EmitsOnly(tok, e) ==
  /\ pc' = "loop"
  /\ tokens' = Append(tokens, tok)
  /\ start' = current
  /\ current' = e
  /\ line' = line
  /\ errors' = errors

(***************************************************************************)
(* C6: one of ! = < > directly followed by = is consumed with it as one    *)
(* token of the combined kind with a two-character lexeme; otherwise the   *)
(* single-character kind is emitted and the next character is not consumed.*)
(***************************************************************************)
OperatorChars == {"!", "=", "<", ">"}

SingleKind(c) ==
  CASE c = "!" -> "Bang" [] c = "=" -> "Equal"
    [] c = "<" -> "Less" [] c = ">" -> "Greater"

CombinedKind(c) ==
  CASE c = "!" -> "BangEqual" [] c = "=" -> "EqualEqual"
    [] c = "<" -> "LessEqual" [] c = ">" -> "GreaterEqual"

C6_GreedyOperators ==
  [][ \A c \in OperatorChars :
        AtChar(c) =>
          IF current + 2 <= Len(chars) /\ chars[current + 2] = "="
            THEN EmitsOnly([kind |-> CombinedKind(c), lexeme |-> <<c, "=">>,
                            literal |-> None, line |-> line], current + 2)
            ELSE EmitsOnly([kind |-> SingleKind(c), lexeme |-> <<c>>,
                            literal |-> None, line |-> line], current + 1)
    ]_vars

C6_Witness ==
  /\ FirstCallReturned
  /\ Len(returned) = 3
  /\ returned[1].kind = "EqualEqual"
  /\ returned[1].lexeme = <<"=", "=">>
  /\ returned[2].kind = "Equal"

(***************************************************************************)
(* C7: a // comment followed by a newline appends no token and stops       *)
(* right before the newline; the newline is scanned by the next iteration, *)
(* which adds one to line.  "// comment\n123" gives Number 123 on line 2   *)
(* and EOF.                                                                *)
(***************************************************************************)
CommentExample ==
  <<"/", "/", " ", "c", "o", "m", "m", "e", "n", "t", "\n", "1", "2", "3">>

C7_CommentStep ==
  ( /\ AtChar("/")
    /\ current + 2 <= Len(chars)
    /\ chars[current + 2] = "/"
    /\ \E i \in (current + 3)..Len(chars) : chars[i] = "\n" )
  => /\ pc' = "loop"
     /\ tokens' = tokens
     /\ errors' = errors
     /\ line' = line
     /\ start' = current
     /\ current' < Len(chars)
     /\ chars[current' + 1] = "\n"
     /\ \A i \in (current + 1)..current' : chars[i] # "\n"

C7_NewlineStep ==
  AtChar("\n") =>
    /\ pc' = "loop"
    /\ tokens' = tokens
    /\ errors' = errors
    /\ line' = line + 1
    /\ current' = current + 1

C7_CommentStopsBeforeNewline ==
  /\ [][C7_CommentStep /\ C7_NewlineStep]_vars
  /\ [](FirstCallReturned /\ chars = CommentExample =>
          returned =
            << [kind |-> "Number", lexeme |-> <<"1", "2", "3">>,
                literal |-> Some([tag |-> "Number", mant |-> 123, exp |-> 0]),
                line |-> 2],
               EOFToken(2) >>)

C7_Witness ==
  /\ FirstCallReturned
  /\ chars = CommentExample
  /\ Len(returned) = 2
  /\ returned[1].line = 2

(***************************************************************************)
(* C8: when the input ends inside a string literal the scanner reports     *)
(* exactly one "Unterminated string." diagnostic, appends no token for it, *)
(* and the returned sequence still ends with the EOF token.                *)
(***************************************************************************)
Unterminated(msg) == msg = "Unterminated string."

UnterminatedCount(es) ==
  Cardinality({i \in 1..Len(es) : Unterminated(es[i].message)})

C8_UnterminatedStep ==
  ( /\ AtChar("\"")
    /\ \A i \in (current + 2)..Len(chars) : chars[i] # "\"" )
  => /\ pc' = "loop"
     /\ tokens' = tokens
     /\ current' = Len(chars)
     /\ Len(errors') = Len(errors) + 1
     /\ SubSeq(errors', 1, Len(errors)) = errors
     /\ Unterminated(Last(errors').message)

C8_UnterminatedString ==
  /\ [][C8_UnterminatedStep]_vars
  /\ []( UnterminatedCount(errors) > 0 =>
           /\ UnterminatedCount(errors) = 1
           /\ pc # "panicked"
           /\ current = Len(chars)
           /\ \A i \in 1..Len(tokens) : tokens[i].kind # "String" =>
                  tokens[i].lexeme = << >> \/ tokens[i].lexeme[1] # "\""
           /\ (pc = "ready" => Last(returned).kind = "EOF") )

C8_Witness ==
  /\ FirstCallReturned
  /\ UnterminatedCount(errors) = 1
  /\ Len(returned) = 2
  /\ returned[1].kind = "Identifier"
  /\ returned[2].kind = "EOF"

(***************************************************************************)
(* C9: a maximal run of alphanumeric characters that starts with an        *)
(* alphabetic character yields exactly one token: a keyword token with no  *)
(* literal if and only if the whole run is an entry of the keyword table,  *)
(* otherwise an Identifier token whose literal is the run.                 *)
(***************************************************************************)
KeywordKinds == {KeywordKind(w) : w \in KeywordWords}

\* the offset just past the alphanumeric run that begins at offset b
RunEnd(b) ==
  CHOOSE e \in (b + 1)..Len(chars) :
    /\ \A i \in (b + 1)..e : is_alphanumeric(chars[i])
    /\ e < Len(chars) => ~is_alphanumeric(chars[e + 1])

C9_WordStep ==
  ( /\ pc = "loop"
    /\ current < Len(chars)
    /\ is_alphabetic(chars[current + 1]) )
  => LET e == RunEnd(current)
         run == SubSeq(chars, current + 1, e)
         tok == Last(tokens')
     IN  /\ pc' = "loop"
         /\ Len(tokens') = Len(tokens) + 1
         /\ SubSeq(tokens', 1, Len(tokens)) = tokens
         /\ current' = e
         /\ errors' = errors
         /\ tok.lexeme = run
         /\ tok.line = line
         /\ (tok.kind \in KeywordKinds) <=> (run \in KeywordWords)
         /\ run \in KeywordWords =>
              tok.kind = KeywordKind(run) /\ tok.literal = None
         /\ run \notin KeywordWords =>
              /\ tok.kind = "Identifier"
              /\ tok.literal = Some([tag |-> "Identifier", name |-> run])

C9_KeywordOrIdentifier == [][C9_WordStep]_vars

C9_Witness ==
  /\ FirstCallReturned
  /\ chars = <<"f", "o", "r", "x">>
  /\ Len(returned) = 2
  /\ returned[1].kind = "Identifier"
  /\ returned[1].literal = Some([tag |-> "Identifier", name |-> chars])

(***************************************************************************)
(* C10, as claimed: every token's line is the line of the token's first    *)
(* character.                                                              *)
(***************************************************************************)
C10_LineOfFirstCharacter ==
  JustEmitted => Last(tokens).line = 1 + NewlinesBefore(start)

(***************************************************************************)
(* C10, amended: every token's line is the value of the line counter when  *)
(* the token is appended, which is the line of the token's last character; *)
(* it is the line of the first character too, except for a String token    *)
(* whose literal holds a newline.                                          *)
(***************************************************************************)
C10_LineOfLastCharacter ==
  JustEmitted =>
    /\ Last(tokens).line = 1 + NewlinesBefore(current)
    /\ ( Last(tokens).kind # "String"
         \/ \A i \in (start + 1)..current : chars[i] # "\n" )
       => Last(tokens).line = 1 + NewlinesBefore(start)

C10_Witness ==
  /\ JustEmitted
  /\ Last(tokens).kind = "String"
  /\ start >= 1
  /\ NewlinesBefore(current) > NewlinesBefore(start)
  /\ NewlinesBefore(start) > 0
  /\ Last(tokens).line = 1 + NewlinesBefore(current)

(***************************************************************************)
(* C11: every token other than EOF has as lexeme the slice of the source   *)
(* from start to current at the moment it is appended: verbatim and not    *)
(* empty, and for a String token with both quotes.                         *)
(***************************************************************************)
C11_AppendStep ==
  (pc = "loop" /\ pc' = "loop" /\ tokens' # tokens) =>
    LET tok == Last(tokens')
    IN  /\ Len(tokens') = Len(tokens) + 1
        /\ SubSeq(tokens', 1, Len(tokens)) = tokens
        /\ tok.kind # "EOF"
        /\ start' = current
        /\ current' > start'
        /\ current' <= Len(chars)
        /\ Len(tok.lexeme) = current' - start'
        /\ \A i \in 1..Len(tok.lexeme) : tok.lexeme[i] = chars[start' + i]
        /\ tok.kind = "String" =>
             /\ Len(tok.lexeme) >= 2
             /\ tok.lexeme[1] = "\""
             /\ Last(tok.lexeme) = "\""

C11_LexemeIsSlice ==
  /\ [][C11_AppendStep]_vars
  /\ [](\A i \in 1..Len(tokens) :
          (tokens[i].kind = "EOF") <=> (tokens[i].lexeme = << >>))

C11_Witness ==
  /\ pc = "loop"
  /\ calls = 0
  /\ Len(tokens) = 2
  /\ tokens[1].kind = "Identifier"
  /\ tokens[2].kind = "String"
  /\ tokens[2].lexeme = <<"\"", "a", "\"">>
  /\ start = 1
  /\ current = 4

(***************************************************************************)
(* C12: an unrecognized character gives exactly one "Unexpected            *)
(* characters." diagnostic with the current line, appends no token and     *)
(* advances current by one, which but for the diagnostic is what a         *)
(* whitespace character does; the scan goes on after any number of         *)
(* diagnostics.                                                            *)
(***************************************************************************)
Whitespace == {" ", "\r", "\t"}

Recognised ==
  Punctuation \cup OperatorChars \cup Whitespace \cup {"/", "\n", "\""}
    \cup Digits \cup Lower \cup Upper

Unexpected(msg) == msg = "Unexpected characters."

UnexpectedCount(es) ==
  Cardinality({i \in 1..Len(es) : Unexpected(es[i].message)})

\* what the iteration over one skipped character does to the scanner
SkipsOne ==
  /\ pc' = "loop"
  /\ tokens' = tokens
  /\ start' = current
  /\ current' = current + 1
  /\ line' = line

C12_UnexpectedStep ==
  (pc = "loop" /\ current < Len(chars) /\ chars[current + 1] \notin Recognised)
  => /\ SkipsOne
     /\ errors' = Append(errors, [line |-> line,
                                  message |-> "Unexpected characters."])

C12_WhitespaceStep ==
  (pc = "loop" /\ current < Len(chars) /\ chars[current + 1] \in Whitespace)
  => SkipsOne /\ errors' = errors

\* a source with no string and no comment: every character is dispatched
\* or belongs to a number or a word
NoStringNoComment == \A i \in 1..Len(chars) : chars[i] \notin {"\"", "/"}

C12_UnexpectedCharacter ==
  /\ [][C12_UnexpectedStep /\ C12_WhitespaceStep]_vars
  /\ []( (pc # "ready" \/ calls > 0) /\ NoStringNoComment =>
           /\ pc # "panicked"
           /\ UnexpectedCount(errors) =
                Cardinality({i \in 1..current : chars[i] \notin Recognised})
           /\ Len(errors) = UnexpectedCount(errors)
           /\ (pc = "ready" => current = Len(chars) /\ Last(returned).kind = "EOF") )

C12_Witness ==
  /\ FirstCallReturned
  /\ Len(chars) = 3
  /\ chars[1] \notin Recognised
  /\ chars[3] \notin Recognised
  /\ UnexpectedCount(errors) = 2
  /\ Len(returned) = 2
  /\ returned[1].kind = "Number"

(***************************************************************************)
(* C14: line starts at 1, never decreases and grows by one for each        *)
(* newline consumed, at the top level or inside a string literal: line is  *)
(* 1 + the number of newlines at offsets below current, and the EOF        *)
(* token's line is 1 + the number of newlines of the source.               *)
(***************************************************************************)
C14_LineStep ==
  /\ line' >= line
  /\ line' - line = NewlinesBefore(current') - NewlinesBefore(current)

C14_LineCountsNewlines ==
  /\ [][C14_LineStep]_vars
  /\ [](line = 1 + NewlinesBefore(current))
  /\ [](FirstCallReturned =>
          Last(returned).line = 1 + NewlinesBefore(Len(chars)))

C14_Witness ==
  /\ FirstCallReturned
  /\ Len(returned) = 2
  /\ returned[1].kind = "String"
  /\ \E i \in 1..Len(returned[1].lexeme) : returned[1].lexeme[i] = "\n"
  /\ chars[Len(chars)] = "\n"
  /\ returned[2] = EOFToken(3)

(***************************************************************************)
(* The scanner runs in one thread: an iteration of the loop, or the code   *)
(* after the loop, that can run does run.  Nothing obliges the caller to   *)
(* call scan_tokens.                                                       *)
(***************************************************************************)
FairAlphabet == {"/", "\n", "\"", "1", "a", "@"}

FairInit == chars \in SeqsUpTo(FairAlphabet, MaxFairLen) /\ Fresh

FairSpec ==
  FairInit /\ [][Next]_vars /\ WF_vars(ScanToken) /\ WF_vars(PushEOF)

(***************************************************************************)
(* C15: every iteration of the loop sets start to current and then raises  *)
(* current by at least one, so start <= current <= length of the source    *)
(* always holds, the loop runs at most length-of-source iterations, and a  *)
(* call of scan_tokens ends on every input.                                *)
(***************************************************************************)
C15_IterationStep ==
  (pc = "loop" /\ current < Len(chars)) =>
    /\ start' = current
    /\ current' > current
    /\ current' <= Len(chars)

C15_Termination ==
  /\ [][C15_IterationStep]_vars
  /\ [](0 <= start /\ start <= current /\ current <= Len(chars))
  /\ [](Len(tokens) <= current + calls)
  /\ [](pc = "loop" => ENABLED ScanToken \/ ENABLED PushEOF)
  /\ (pc = "loop") ~> (pc # "loop")

C15_Witness ==
  /\ FirstCallReturned
  /\ Len(chars) = MaxFairLen
  /\ Len(returned) = MaxFairLen + 1
  /\ start = MaxFairLen - 1
  /\ current = MaxFairLen

(***************************************************************************)
(* C16: a string literal that is terminated yields exactly one String      *)
(* token, which ends at the first quote after the opening one and whose    *)
(* literal is the lexeme without its first and last character; a backslash *)
(* before a quote does not keep the string open, and "" has an empty       *)
(* literal.                                                                *)
(***************************************************************************)
\* the index in chars of the first quote after the one at offset b
ClosingQuote(b) ==
  CHOOSE q \in (b + 2)..Len(chars) :
    chars[q] = "\"" /\ \A i \in (b + 2)..(q - 1) : chars[i] # "\""

C16_StringStep ==
  ( /\ AtChar("\"")
    /\ \E i \in (current + 2)..Len(chars) : chars[i] = "\"" )
  => LET q == ClosingQuote(current)
         tok == Last(tokens')
     IN  /\ pc' = "loop"
         /\ Len(tokens') = Len(tokens) + 1
         /\ SubSeq(tokens', 1, Len(tokens)) = tokens
         /\ errors' = errors
         /\ current' = q
         /\ tok.kind = "String"
         /\ tok.lexeme = SubSeq(chars, current + 1, q)
         /\ tok.literal =
              Some([tag |-> "String",
                    str |-> SubSeq(tok.lexeme, 2, Len(tok.lexeme) - 1)])
         /\ q = current + 2 => tok.literal = Some([tag |-> "String", str |-> << >>])

C16_TerminatedString == [][C16_StringStep]_vars

C16_Witness ==
  /\ FirstCallReturned
  /\ Len(returned) >= 3
  /\ returned[1].kind = "String"
  /\ returned[1].lexeme = <<"\"", "\\", "\"">>
  /\ returned[1].literal = Some([tag |-> "String", str |-> <<"\\">>])
  /\ returned[2].kind = "String"
  /\ returned[2].literal = Some([tag |-> "String", str |-> << >>])

(***************************************************************************)
(* C17: a token carries a literal if and only if its kind is String,       *)
(* Number or Identifier; punctuation, operator, keyword and EOF tokens     *)
(* have none.                                                              *)
(***************************************************************************)
LiteralKinds == {"String", "Number", "Identifier"}

LiteralIffLiteralKind(toks) ==
  \A i \in 1..Len(toks) :
    /\ (toks[i].literal # None) <=> (toks[i].kind \in LiteralKinds)
    /\ toks[i].literal # None => toks[i].literal[1].tag = toks[i].kind

C17_LiteralOnlyForLiteralKinds ==
  LiteralIffLiteralKind(tokens) /\ LiteralIffLiteralKind(returned)

C17_Witness ==
  /\ FirstCallReturned
  /\ Len(returned) = 3
  /\ returned[1].kind = "Number"
  /\ returned[1].literal # None
  /\ returned[2].kind \in KeywordKinds
  /\ returned[2].literal = None
  /\ returned[3].literal = None

(***************************************************************************)
(* The text number() matches is digits, or digits, a dot and digits, so    *)
(* its parse never fails: the default of unwrap_or_default (0.0) is never  *)
(* what a Number token carries, and a Number token's value is the value of *)
(* its lexeme.                                                             *)
(***************************************************************************)
NumberAlwaysParses ==
  \A i \in 1..Len(tokens) :
    tokens[i].kind = "Number" =>
      /\ parse_f64(tokens[i].lexeme) # None
      /\ tokens[i].literal = Some(LiteralNumber(parse_f64(tokens[i].lexeme)[1]))

(***************************************************************************)
(* C19: each of the sixteen lower-case reserved words scans as exactly one *)
(* token of its keyword kind, with no literal.                             *)
(***************************************************************************)
ReservedKind(w) ==
  CASE w = <<"a","n","d">> -> "And"
    [] w = <<"c","l","a","s","s">> -> "Class"
    [] w = <<"e","l","s","e">> -> "Else"
    [] w = <<"f","a","l","s","e">> -> "False"
    [] w = <<"f","o","r">> -> "For"
    [] w = <<"f","u","n">> -> "Fun"
    [] w = <<"i","f">> -> "If"
    [] w = <<"n","i","l">> -> "Nil"
    [] w = <<"o","r">> -> "Or"
    [] w = <<"p","r","i","n","t">> -> "Print"
    [] w = <<"r","e","t","u","r","n">> -> "Return"
    [] w = <<"s","u","p","e","r">> -> "Super"
    [] w = <<"t","h","i","s">> -> "This"
    [] w = <<"t","r","u","e">> -> "True"
    [] w = <<"v","a","r">> -> "Var"
    [] w = <<"w","h","i","l","e">> -> "While"

C19_ReservedWordsAreKeywords ==
  (FirstCallReturned /\ chars \in ReservedWords) =>
    returned = << [kind |-> ReservedKind(chars), lexeme |-> chars,
                   literal |-> None, line |-> 1],
                  EOFToken(1) >>

(***************************************************************************)
(* C20: scan_tokens never clears tokens or resets the cursor: a later call *)
(* on the same Scanner consumes nothing, reports nothing and returns the   *)
(* earlier sequence with one more EOF token, so after n calls the returned *)
(* sequence ends with n EOF tokens.                                        *)
(***************************************************************************)
C20_LaterCallStep ==
  calls >= 1 =>
    /\ start' = start
    /\ current' = current
    /\ line' = line
    /\ errors' = errors
    /\ pc = "ready" => pc' = "loop" /\ tokens' = tokens /\ returned' = returned
    /\ pc = "loop" =>
         /\ pc' = "ready"
         /\ returned' = Append(returned, EOFToken(line))
         /\ tokens' = returned'

C20_RepeatedCalls ==
  /\ [][C20_LaterCallStep]_vars
  /\ []( (pc = "ready" /\ calls >= 1) =>
           /\ tokens = returned
           /\ Len(returned) >= calls
           /\ \A i \in 1..Len(returned) :
                (returned[i].kind = "EOF") <=> (i > Len(returned) - calls) )

C20_Witness ==
  /\ pc = "ready"
  /\ calls = 2
  /\ Len(returned) = 4
  /\ returned[2].kind = "Identifier"
  /\ returned[3].kind = "EOF"
  /\ returned[4].kind = "EOF"
  /\ errors # << >>

====
